---- MODULE Spec2Model ----
(***************************************************************************)
(* A model of two leaf components of langchain_core:                       *)
(*   - output_parsers/pydantic.py : PydanticOutputParser                   *)
(*   - embeddings/fake.py         : FakeEmbeddings,                        *)
(*                                  DeterministicFakeEmbedding             *)
(*                                                                         *)
(* Text is a sequence of one-character strings.  A literal of the source   *)
(* that is never inspected character by character (the fixed parts of an   *)
(* f-string, the instruction template) is kept as one element of that      *)
(* sequence.                                                               *)
(*                                                                         *)
(* A Python value that json handles is a tagged record:                    *)
(*   [t |-> "int",  i |-> n]        [t |-> "str",  s |-> chars]            *)
(*   [t |-> "null"]                 [t |-> "list", l |-> <<values>>]       *)
(*   [t |-> "dict", d |-> << <<key chars, value>>, ... >>]                 *)
(* A dict keeps its insertion order, as a Python dict does.                *)
(***************************************************************************)
EXTENDS Integers, Sequences, FiniteSets, TLC

VARIABLES
    \* ---- output_parsers/pydantic.py ----
    PYDANTIC_MAJOR_VERSION, \* the installed pydantic major version
    pydantic_object,        \* PydanticOutputParser.pydantic_object
    schema_cache,           \* the dict pydantic_object.schema() hands out
    text,                   \* the LLM output the calls are made on
    call,                   \* the last call made on the parser
    outcome,                \* what that call returned or raised
    first_instructions,     \* the first get_format_instructions() string
    instruction_calls       \* how many get_format_instructions() calls were made

VARIABLES
    \* ---- embeddings/fake.py ----
    np_random,              \* numpy's process-wide generator, np.random
    fake_size,              \* FakeEmbeddings.size
    det_size,               \* DeterministicFakeEmbedding.size
    emb_call,               \* the last embedding call and what it gave
    prev_call               \* which call came before it

VARIABLES
    \* ---- threads calling DeterministicFakeEmbedding.embed_query ----
    serialized,             \* whether the callers serialise their calls
    lock,                   \* the callers' lock: 0, or the thread holding it
    pc,                     \* where each thread is in its call
    th_text,                \* the text of each thread's call
    th_result,              \* what each thread's call returned
    interleaved             \* whether another thread's step came between
                            \* this thread's seed and its draw

parser_vars == <<PYDANTIC_MAJOR_VERSION, pydantic_object, schema_cache, text,
                 call, outcome, first_instructions, instruction_calls>>
embed_vars  == <<np_random, fake_size, det_size, emb_call, prev_call>>
thread_vars == <<serialized, lock, pc, th_text, th_result, interleaved>>
vars == <<parser_vars, embed_vars, thread_vars>>

JInt(n)  == [t |-> "int", i |-> n]
JStr(s)  == [t |-> "str", s |-> s]
JNull    == [t |-> "null"]
JList(l) == [t |-> "list", l |-> l]
JDict(d) == [t |-> "dict", d |-> d]

Range(f) == {f[i] : i \in DOMAIN f}

(***************************************************************************)
(* dict operations                                                         *)
(***************************************************************************)
DictKeys(d) == {d[i][1] : i \in DOMAIN d}

DictGet(d, k) == d[CHOOSE i \in DOMAIN d : d[i][1] = k][2]

\* d[k] = v : an existing key keeps its position, a new key goes last
DictSet(d, k, v) ==
    IF k \in DictKeys(d)
    THEN [i \in DOMAIN d |-> IF d[i][1] = k THEN <<k, v>> ELSE d[i]]
    ELSE Append(d, <<k, v>>)

\* del d[k]
DictDel(d, k) == SelectSeq(d, LAMBDA p : p[1] # k)

(***************************************************************************)
(* json.dumps with its default separators (", " and ": ").  The alphabet   *)
(* of the model holds no character that json escapes.                      *)
(***************************************************************************)
DigitChar == <<"0", "1", "2", "3", "4", "5", "6", "7", "8", "9">>
DigitSet  == Range(DigitChar)
DigitVal(c) == (CHOOSE n \in DOMAIN DigitChar : DigitChar[n] = c) - 1

RECURSIVE Digits(_)
Digits(n) ==
    IF n < 10 THEN <<DigitChar[n + 1]>>
    ELSE Digits(n \div 10) \o <<DigitChar[(n % 10) + 1]>>

RECURSIVE json_dumps(_)
RECURSIVE DumpItems(_)
RECURSIVE DumpPairs(_)

DumpItems(l) ==
    IF l = <<>> THEN <<>>
    ELSE json_dumps(Head(l))
         \o (IF Len(l) > 1 THEN <<",", " ">> \o DumpItems(Tail(l)) ELSE <<>>)

DumpPairs(d) ==
    IF d = <<>> THEN <<>>
    ELSE <<"\"">> \o Head(d)[1] \o <<"\"", ":", " ">> \o json_dumps(Head(d)[2])
         \o (IF Len(d) > 1 THEN <<",", " ">> \o DumpPairs(Tail(d)) ELSE <<>>)

json_dumps(v) ==
    CASE v.t = "int"  -> Digits(v.i)
      [] v.t = "str"  -> <<"\"">> \o v.s \o <<"\"">>
      [] v.t = "null" -> <<"n", "u", "l", "l">>
      [] v.t = "list" -> <<"[">> \o DumpItems(v.l) \o <<"]">>
      [] v.t = "dict" -> <<"{">> \o DumpPairs(v.d) \o <<"}">>

(***************************************************************************)
(* json.loads: a recursive-descent decoder of the JSON grammar restricted  *)
(* to objects, arrays, strings without escapes, non-negative integers and  *)
(* null.  Every parse step returns [ok, v, pos]: pos is the index after    *)
(* the value, or the index of the error.                                   *)
(***************************************************************************)
Whitespace == {" ", "\n", "\t"}

Ok(v, p) == [ok |-> TRUE, v |-> v, pos |-> p]
Fail(p)  == [ok |-> FALSE, v |-> JNull, pos |-> p]

RECURSIVE SkipWs(_, _)
SkipWs(s, i) ==
    IF i <= Len(s) /\ s[i] \in Whitespace THEN SkipWs(s, i + 1) ELSE i

\* the index of the closing quote of a string whose body starts at i, or 0
RECURSIVE ScanString(_, _)
ScanString(s, i) ==
    IF i > Len(s) THEN 0
    ELSE IF s[i] = "\"" THEN i
    ELSE ScanString(s, i + 1)

ParseString(s, i) ==
    LET j == ScanString(s, i + 1) IN
    IF j = 0 THEN Fail(Len(s) + 1)
    ELSE Ok(JStr(SubSeq(s, i + 1, j - 1)), j + 1)

\* the first index after the digits that start at i
RECURSIVE ScanDigits(_, _)
ScanDigits(s, i) ==
    IF i <= Len(s) /\ s[i] \in DigitSet THEN ScanDigits(s, i + 1) ELSE i

RECURSIVE DigitsValue(_, _, _)
DigitsValue(s, i, j) ==
    IF j < i THEN 0 ELSE 10 * DigitsValue(s, i, j - 1) + DigitVal(s[j])

\* "0" or [1-9][0-9]* : after a leading "0" the number ends
ParseNumber(s, i) ==
    LET j == IF s[i] = "0" THEN i + 1 ELSE ScanDigits(s, i) IN
    Ok(JInt(DigitsValue(s, i, j - 1)), j)

ParseNull(s, i) ==
    IF i + 3 <= Len(s) /\ SubSeq(s, i, i + 3) = <<"n", "u", "l", "l">>
    THEN Ok(JNull, i + 4)
    ELSE Fail(i)

RECURSIVE ParseValue(_, _)
RECURSIVE ParseMembers(_, _, _)
RECURSIVE ParseElements(_, _, _)

ParseMembers(s, i, acc) ==
    IF i > Len(s) \/ s[i] # "\"" THEN Fail(i)
    ELSE
      LET k == ParseString(s, i) IN
      IF ~k.ok THEN k
      ELSE
        LET c == SkipWs(s, k.pos) IN
        IF c > Len(s) \/ s[c] # ":" THEN Fail(c)
        ELSE
          LET r == ParseValue(s, SkipWs(s, c + 1)) IN
          IF ~r.ok THEN r
          ELSE
            LET acc2 == DictSet(acc, k.v.s, r.v)
                e    == SkipWs(s, r.pos)
            IN  IF e > Len(s) THEN Fail(e)
                ELSE IF s[e] = "}" THEN Ok(JDict(acc2), e + 1)
                ELSE IF s[e] = "," THEN ParseMembers(s, SkipWs(s, e + 1), acc2)
                ELSE Fail(e)

ParseElements(s, i, acc) ==
    LET r == ParseValue(s, i) IN
    IF ~r.ok THEN r
    ELSE
      LET acc2 == Append(acc, r.v)
          e    == SkipWs(s, r.pos)
      IN  IF e > Len(s) THEN Fail(e)
          ELSE IF s[e] = "]" THEN Ok(JList(acc2), e + 1)
          ELSE IF s[e] = "," THEN ParseElements(s, SkipWs(s, e + 1), acc2)
          ELSE Fail(e)

ParseValue(s, i) ==
    IF i > Len(s) THEN Fail(i)
    ELSE CASE s[i] = "\"" -> ParseString(s, i)
           [] s[i] = "{" ->
                LET j == SkipWs(s, i + 1) IN
                IF j <= Len(s) /\ s[j] = "}" THEN Ok(JDict(<<>>), j + 1)
                ELSE ParseMembers(s, j, <<>>)
           [] s[i] = "[" ->
                LET j == SkipWs(s, i + 1) IN
                IF j <= Len(s) /\ s[j] = "]" THEN Ok(JList(<<>>), j + 1)
                ELSE ParseElements(s, j, <<>>)
           [] s[i] \in DigitSet -> ParseNumber(s, i)
           [] s[i] = "n" -> ParseNull(s, i)
           [] OTHER -> Fail(i)

\* json.loads(s): one value, surrounded by optional whitespace, and nothing else
json_loads(s) ==
    LET r == ParseValue(s, SkipWs(s, 1)) IN
    IF r.ok /\ SkipWs(s, r.pos) = Len(s) + 1
    THEN [ok |-> TRUE, v |-> r.v]
    ELSE [ok |-> FALSE, v |-> JNull]

(***************************************************************************)
(* The pydantic model classes a parser can be built for.  A class has a    *)
(* name, the pydantic base it derives from ("v2": pydantic.BaseModel of    *)
(* pydantic 2, "v1": the pydantic 1 BaseModel, "other": no pydantic model) *)
(* and its fields in declaration order.                                    *)
(***************************************************************************)
foo == <<"f", "o", "o">>
bar == <<"b", "a", "r">>

Field(n, ty, req, dflt) ==
    [name |-> n, type |-> ty, required |-> req, default |-> dflt]

ClassItem(base) ==
    [name |-> <<"I", "t", "e", "m">>, base |-> base,
     fields |-> << Field(foo, "integer", TRUE, JNull),
                   Field(bar, "string", FALSE, JStr(<<"x">>)) >>]

ClassPair(base) ==
    [name |-> <<"P", "a", "i", "r">>, base |-> base,
     fields |-> << Field(foo, "integer", TRUE, JNull),
                   Field(bar, "string", TRUE, JNull) >>]

ClassMisc ==
    [name |-> <<"M", "i", "s", "c">>, base |-> "other", fields |-> <<>>]

ModelClasses ==
    {ClassItem("v1"), ClassItem("v2"), ClassPair("v1"), ClassPair("v2"), ClassMisc}

\* what is installed: under pydantic 1 there is no pydantic 2 BaseModel
Installations ==
    {c \in [version : {1, 2}, cls : ModelClasses] :
        c.version = 1 => c.cls.base # "v2"}

IsModel(cls) == cls.base \in {"v1", "v2"}

(***************************************************************************)
(* Outcomes of a call: a returned value or a raised exception.             *)
(***************************************************************************)
Return(v) ==
    [kind |-> "return", value |-> v, exc |-> "", msg |-> <<>>,
     llm_output |-> <<>>, cause |-> ""]

Raise(exc, msg, llm_output, cause) ==
    [kind |-> "raise", value |-> JNull, exc |-> exc, msg |-> msg,
     llm_output |-> llm_output, cause |-> cause]

NoOutcome == Return(JNull)

(***************************************************************************)
(* pydantic validation (model_validate / parse_obj) of a decoded value     *)
(* against a class: every field in declaration order, extra keys ignored,  *)
(* a missing optional field takes its default.  Lax coercions: a string    *)
(* of digits is accepted for an integer field, and pydantic 1 also turns   *)
(* an integer into a string for a string field.                            *)
(***************************************************************************)
IsIntLiteral(s) == s # <<>> /\ \A i \in DOMAIN s : s[i] \in DigitSet

Coerce(base, type, v) ==
    CASE type = "integer" ->
           IF v.t = "int" THEN [ok |-> TRUE, v |-> v, msg |-> ""]
           ELSE IF v.t = "str" /\ IsIntLiteral(v.s)
                THEN [ok |-> TRUE, v |-> JInt(DigitsValue(v.s, 1, Len(v.s))), msg |-> ""]
           ELSE [ok |-> FALSE, v |-> JNull, msg |-> "value is not a valid integer"]
      [] type = "string" ->
           IF v.t = "str" THEN [ok |-> TRUE, v |-> v, msg |-> ""]
           ELSE IF v.t = "int" /\ base = "v1"
                THEN [ok |-> TRUE, v |-> JStr(Digits(v.i)), msg |-> ""]
           ELSE [ok |-> FALSE, v |-> JNull, msg |-> "str type expected"]

\* the validated value of one field, or its error
ValidateField(base, f, d) ==
    IF f.name \in DictKeys(d) THEN Coerce(base, f.type, DictGet(d, f.name))
    ELSE IF f.required THEN [ok |-> FALSE, v |-> JNull, msg |-> "field required"]
    ELSE [ok |-> TRUE, v |-> f.default, msg |-> ""]

\* str(ValidationError): the count, the class name, then each error's
\* location and message
RECURSIVE ErrorLines(_)
ErrorLines(errs) ==
    IF errs = <<>> THEN <<>>
    ELSE <<"\n">> \o Head(errs).loc \o <<"\n  ", Head(errs).msg>>
         \o ErrorLines(Tail(errs))

ValidationErrorStr(cls, errs) ==
    Digits(Len(errs)) \o <<" validation error for ">> \o cls.name
    \o ErrorLines(errs)

\* an instance of cls: its class name and its field values in declaration
\* order, so that pydantic's == on instances is equality of these records
Instance(cls, vals) ==
    [t |-> "model", cls |-> cls.name,
     fields |-> [i \in DOMAIN cls.fields |-> <<cls.fields[i].name, vals[i]>>]]

model_validate(cls, obj) ==
    IF obj.t # "dict"
    THEN [ok |-> FALSE, obj |-> JNull,
          err |-> ValidationErrorStr(cls,
                    << [loc |-> <<"__root__">>, msg |-> "value is not a valid dict"] >>)]
    ELSE
      LET res  == [i \in DOMAIN cls.fields |->
                      ValidateField(cls.base, cls.fields[i], obj.d)]
          bad  == SelectSeq([i \in DOMAIN cls.fields |->
                               [loc |-> cls.fields[i].name, msg |-> res[i].msg]],
                            LAMBDA e : e.msg # "")
      IN  IF bad = <<>>
          THEN [ok |-> TRUE, obj |-> Instance(cls, [i \in DOMAIN res |-> res[i].v]),
                err |-> <<>>]
          ELSE [ok |-> FALSE, obj |-> JNull, err |-> ValidationErrorStr(cls, bad)]

(***************************************************************************)
(* pydantic_object.schema(): the JSON schema of a model class, in the      *)
(* key order pydantic emits.                                               *)
(***************************************************************************)
kTitle      == <<"t", "i", "t", "l", "e">>
kType       == <<"t", "y", "p", "e">>
kProperties == <<"p", "r", "o", "p", "e", "r", "t", "i", "e", "s">>
kRequired   == <<"r", "e", "q", "u", "i", "r", "e", "d">>
kDefault    == <<"d", "e", "f", "a", "u", "l", "t">>
kObject     == <<"o", "b", "j", "e", "c", "t">>
kInteger    == <<"i", "n", "t", "e", "g", "e", "r">>
kString     == <<"s", "t", "r", "i", "n", "g">>

TypeName(ty) == IF ty = "integer" THEN kInteger ELSE kString

\* a field's title is its capitalised name
Capital(c) == CASE c = "f" -> "F" [] c = "b" -> "B" [] OTHER -> c
FieldTitle(n) == <<Capital(Head(n))>> \o Tail(n)

FieldSchema(f) ==
    JDict(<< <<kTitle, JStr(FieldTitle(f.name))>> >>
          \o (IF f.required THEN <<>> ELSE << <<kDefault, f.default>> >>)
          \o << <<kType, JStr(TypeName(f.type))>> >>)

SchemaOf(cls) ==
    LET req == SelectSeq(cls.fields, LAMBDA f : f.required) IN
       << <<kTitle, JStr(cls.name)>>,
          <<kType, JStr(kObject)>>,
          <<kProperties,
            JDict([i \in DOMAIN cls.fields |->
                     <<cls.fields[i].name, FieldSchema(cls.fields[i])>>])>> >>
       \o (IF req = <<>> THEN <<>>
           ELSE << <<kRequired,
                     JList([i \in DOMAIN req |-> JStr(req[i].name)])>> >>)

(***************************************************************************)
(* JsonOutputParser, the base class of PydanticOutputParser.               *)
(***************************************************************************)
\* the closers a truncated text still owes: whether it ends inside a
\* string, and the stack of brackets left open (innermost last)
RECURSIVE OpenScan(_, _, _, _)
OpenScan(s, i, stack, inStr) ==
    IF i > Len(s) THEN [stack |-> stack, inStr |-> inStr]
    ELSE IF inStr THEN OpenScan(s, i + 1, stack, s[i] # "\"")
    ELSE CASE s[i] = "\"" -> OpenScan(s, i + 1, stack, TRUE)
           [] s[i] = "{"  -> OpenScan(s, i + 1, Append(stack, "}"), FALSE)
           [] s[i] = "["  -> OpenScan(s, i + 1, Append(stack, "]"), FALSE)
           [] s[i] \in {"}", "]"} /\ stack # <<>> ->
                OpenScan(s, i + 1, SubSeq(stack, 1, Len(stack) - 1), FALSE)
           [] OTHER -> OpenScan(s, i + 1, stack, FALSE)

Reverse(q) == [i \in DOMAIN q |-> q[Len(q) + 1 - i]]

Complete(s) ==
    LET o == OpenScan(s, 1, <<>>, FALSE) IN
    s \o (IF o.inStr THEN <<"\"">> ELSE <<>>) \o Reverse(o.stack)

\* best-effort decoding of truncated JSON: the longest prefix of s[1..n]
\* that decodes once its open strings and brackets are closed
RECURSIVE parse_partial_json(_, _)
parse_partial_json(s, n) ==
    IF n = 0 THEN [ok |-> FALSE, v |-> JNull]
    ELSE LET r == json_loads(Complete(SubSeq(s, 1, n))) IN
         IF r.ok THEN r ELSE parse_partial_json(s, n - 1)

\* JsonOutputParser.parse_result(result, partial=False): decodes the first
\* generation; a decode failure carries the text and the decode error
JsonParseResult(result, partial) ==
    LET t == result[1]
        r == IF partial THEN parse_partial_json(t, Len(t)) ELSE json_loads(t)
    IN  IF r.ok THEN Return(r.v)
        ELSE Raise("OutputParserException", <<"Invalid json output: ">> \o t,
                   t, "JSONDecodeError")

(***************************************************************************)
(* PydanticOutputParser                                                    *)
(***************************************************************************)
\* mutant: the exception is built without llm_output
_parser_exception_no_llm_output(e, json_object) ==
    LET json_string == json_dumps(json_object)
        name        == pydantic_object.name
        msg         == <<"Failed to parse ">> \o name \o <<" from completion ">>
                       \o json_string \o <<". Got: ">> \o e
    IN  Raise("OutputParserException", msg, <<>>, "ValidationError")

_parser_exception(e, json_object) ==
    LET json_string == json_dumps(json_object)
        name        == pydantic_object.name
        msg         == <<"Failed to parse ">> \o name \o <<" from completion ">>
                       \o json_string \o <<". Got: ">> \o e
    IN  Raise("OutputParserException", msg, json_string, "ValidationError")

\* self.pydantic_object.model_validate(obj) / .parse_obj(obj) inside the
\* try ... except ValidationError of _parse_obj
Validated(obj) ==
    LET r == model_validate(pydantic_object, obj) IN
    IF r.ok THEN Return(r.obj)
    ELSE _parser_exception(r.err, obj)

_parse_obj(obj) ==
    IF PYDANTIC_MAJOR_VERSION = 2
    THEN CASE pydantic_object.base = "v2" -> Validated(obj)
           [] pydantic_object.base = "v1" -> Validated(obj)
           [] OTHER ->
                Raise("OutputParserException",
                      <<"Unsupported model version for PydanticOutputParser: ",
                        "<class 'type'>">>, <<>>, "")
    ELSE IF IsModel(pydantic_object) THEN Validated(obj)
         ELSE Raise("AttributeError", <<"parse_obj">>, <<>>, "")

\* mutant: partial is passed on to the base class
parse_result_forwarding(result, partial) ==
    LET json_object == JsonParseResult(result, partial) IN
    IF json_object.kind = "raise" THEN json_object
    ELSE _parse_obj(json_object.value)

\* mutant: the decoded dict is returned as it is, _parse_obj is not called
parse_result_unvalidated(result, partial) ==
    JsonParseResult(result, FALSE)

\* line 64 calls super().parse_result(result): partial is not passed on,
\* so the base class runs with its default, partial=False
parse_result(result, partial) ==
    LET json_object == JsonParseResult(result, FALSE) IN
    IF json_object.kind = "raise" THEN json_object
    ELSE _parse_obj(json_object.value)

\* JsonOutputParser.parse(text): self.parse_result([Generation(text=text)])
JsonParse(t) == parse_result(<<t>>, FALSE)

parse(t) == JsonParse(t)

TemplateHead ==
    "The output should be formatted as a JSON instance that conforms to the JSON schema below.\n\nAs an example, for the schema {\"properties\": {\"foo\": {\"title\": \"Foo\", \"description\": \"a list of strings\", \"type\": \"array\", \"items\": {\"type\": \"string\"}}}, \"required\": [\"foo\"]}\nthe object {\"foo\": [\"bar\", \"baz\"]} is a well-formatted instance of the schema. The object {\"properties\": {\"foo\": [\"bar\", \"baz\"]}} is not well-formatted.\n\nHere is the output schema:\n"

\* the template's code fence, three backquotes (a TLA+ string cannot hold
\* a backquote)
Fence == "'''"

\* _PYDANTIC_FORMAT_INSTRUCTIONS.format(schema=schema_str)
_PYDANTIC_FORMAT_INSTRUCTIONS(schema_str) ==
    <<TemplateHead, Fence, "\n">> \o schema_str \o <<"\n", Fence>>

\* mutant: no copy is made, `schema` is the dict schema() handed out
SchemaBindingAliased == "cache"

\* Which dict the local name `schema` is bound to: line 85 builds a new
\* dict ("local") holding the items of the dict schema() handed out
\* ("cache").
SchemaBinding == "local"

\* mutant: only "title" is deleted
get_format_instructions_keep_type ==
    IF ~IsModel(pydantic_object)
    THEN [outcome |-> Raise("AttributeError", <<"schema">>, <<>>, ""),
          cache |-> schema_cache]
    ELSE
      LET heap0 == [cache |-> schema_cache, local |-> schema_cache]
          reduced_schema == SchemaBinding
          heap1 == IF kTitle \in DictKeys(heap0[reduced_schema])
                   THEN [heap0 EXCEPT ![reduced_schema] = DictDel(@, kTitle)]
                   ELSE heap0
          schema_str == json_dumps(JDict(heap1[reduced_schema]))
      IN  [outcome |-> Return(JStr(_PYDANTIC_FORMAT_INSTRUCTIONS(schema_str))),
           cache |-> heap1.cache]

\* get_format_instructions on a heap of the two dicts: the outcome and the
\* dict schema() hands out afterwards
get_format_instructions ==
    IF ~IsModel(pydantic_object)
    THEN [outcome |-> Raise("AttributeError", <<"schema">>, <<>>, ""),
          cache |-> schema_cache]
    ELSE
      LET heap0 == [cache |-> schema_cache, local |-> schema_cache]
          reduced_schema == SchemaBinding
          heap1 == IF kTitle \in DictKeys(heap0[reduced_schema])
                   THEN [heap0 EXCEPT ![reduced_schema] = DictDel(@, kTitle)]
                   ELSE heap0
          heap2 == IF kType \in DictKeys(heap1[reduced_schema])
                   THEN [heap1 EXCEPT ![reduced_schema] = DictDel(@, kType)]
                   ELSE heap1
          schema_str == json_dumps(JDict(heap2[reduced_schema]))
      IN  [outcome |-> Return(JStr(_PYDANTIC_FORMAT_INSTRUCTIONS(schema_str))),
           cache |-> heap2.cache]

(***************************************************************************)
(* numpy's legacy global generator, np.random.  Its state is abstracted    *)
(* to a linear congruential generator over 0..RngModulus-1, together with  *)
(* the cached second value of the last pair of normal variates (numpy's    *)
(* legacy gauss draws two values at a time and keeps one for the next      *)
(* draw; seeding drops it).                                                *)
(***************************************************************************)
RngModulus == 8

Generator(s, has_gauss, gauss) ==
    [s |-> s, has_gauss |-> has_gauss, gauss |-> gauss]

NextUniform(s) == (5 * s + 3) % RngModulus

Generators ==
    {Generator(s, FALSE, 0) : s \in 0..(RngModulus - 1)}
    \cup {Generator(NextUniform(x), TRUE, x) : x \in 0..(RngModulus - 1)}

\* np.random.seed(seed)
np_random_seed(seed) == Generator(seed % RngModulus, FALSE, 0)

\* one normal variate: the value and the generator afterwards
Gauss(g) ==
    IF g.has_gauss
    THEN [v |-> g.gauss, g |-> Generator(g.s, FALSE, 0)]
    ELSE LET x1 == NextUniform(g.s)
             x2 == NextUniform(x1)
         IN  [v |-> x2, g |-> Generator(x2, TRUE, x1)]

\* np.random.normal(size=n) for n >= 0
RECURSIVE np_random_normal(_, _)
np_random_normal(g, n) ==
    IF n = 0 THEN [vec |-> <<>>, g |-> g]
    ELSE LET d == Gauss(g)
             r == np_random_normal(d.g, n - 1)
         IN  [vec |-> <<d.v>> \o r.vec, g |-> r.g]

\* list(np.random.normal(size=size)): a negative size raises ValueError
DrawEmbedding(size, g) ==
    IF size < 0 THEN [err |-> TRUE, vec |-> <<>>, g |-> g]
    ELSE LET r == np_random_normal(g, size) IN
         [err |-> FALSE, vec |-> r.vec, g |-> r.g]

(***************************************************************************)
(* FakeEmbeddings.  Every operation takes the generator it finds and       *)
(* returns the generator it leaves, with its result or its failure.        *)
(***************************************************************************)
\* mutant: the vector is drawn from a generator of the object's own
Fake_get_embedding_own_generator(size, g) ==
    [err |-> size < 0,
     vec |-> DrawEmbedding(size, Generator(0, FALSE, 0)).vec,
     g |-> g]

Fake_get_embedding(size, g) == DrawEmbedding(size, g)

\* mutant: one vector per distinct text
RECURSIVE Fake_embed_documents_distinct(_, _, _)
Fake_embed_documents_distinct(size, texts, g) ==
    IF texts = <<>> THEN [err |-> FALSE, vecs |-> <<>>, g |-> g]
    ELSE IF Head(texts) \in Range(Tail(texts))
    THEN Fake_embed_documents_distinct(size, Tail(texts), g)
    ELSE LET e == Fake_get_embedding(size, g) IN
         IF e.err THEN [err |-> TRUE, vecs |-> <<>>, g |-> e.g]
         ELSE LET r == Fake_embed_documents_distinct(size, Tail(texts), e.g) IN
              [err |-> r.err,
               vecs |-> IF r.err THEN <<>> ELSE <<e.vec>> \o r.vecs,
               g |-> r.g]

\* [self._get_embedding() for _ in texts]
RECURSIVE Fake_embed_documents(_, _, _)
Fake_embed_documents(size, texts, g) ==
    IF texts = <<>> THEN [err |-> FALSE, vecs |-> <<>>, g |-> g]
    ELSE LET e == Fake_get_embedding(size, g) IN
         IF e.err THEN [err |-> TRUE, vecs |-> <<>>, g |-> e.g]
         ELSE LET r == Fake_embed_documents(size, Tail(texts), e.g) IN
              [err |-> r.err,
               vecs |-> IF r.err THEN <<>> ELSE <<e.vec>> \o r.vecs,
               g |-> r.g]

Fake_embed_query(size, t, g) == Fake_get_embedding(size, g)

(***************************************************************************)
(* DeterministicFakeEmbedding                                              *)
(***************************************************************************)
SeedModulus == 100000000

\* hashlib.sha256(text.encode("utf-8")).hexdigest()
Sha256Hex(t) ==
    CASE t = "hello world" ->
           << "b","9","4","d","2","7","b","9","9","3","4","d","3","e","0","8",
              "a","5","2","e","5","2","d","7","d","a","7","d","a","b","f","a",
              "c","4","8","4","e","f","e","3","7","a","5","3","8","0","e","e",
              "9","0","8","8","f","7","a","c","e","2","e","f","c","d","e","9" >>
      [] t = "foo bar" ->
           << "f","b","c","1","a","9","f","8","5","8","e","a","9","e","1","7",
              "7","9","1","6","9","6","4","b","d","8","8","c","3","d","3","7",
              "b","9","1","a","1","e","8","4","4","1","2","7","6","5","e","2",
              "9","9","5","0","7","7","7","f","2","6","5","c","4","b","7","5" >>

HexChar == <<"0", "1", "2", "3", "4", "5", "6", "7", "8", "9",
             "a", "b", "c", "d", "e", "f">>
HexVal(c) == (CHOOSE n \in DOMAIN HexChar : HexChar[n] = c) - 1

\* int(hex, 16) % m, digit by digit from the left, four digits to a step
\* (a digest's length is a multiple of four).  The test on next makes TLC
\* compute it before it recurses, which keeps its evaluation stack shallow.
HexStep(acc, c, m) == (acc * 16 + HexVal(c)) % m

RECURSIVE HexMod(_, _, _, _)
HexMod(hex, i, acc, m) ==
    IF i > Len(hex) THEN acc
    ELSE LET next == HexStep(HexStep(HexStep(HexStep(acc, hex[i], m),
                                             hex[i + 1], m),
                                     hex[i + 2], m),
                             hex[i + 3], m)
         IN  IF next >= 0 THEN HexMod(hex, i + 4, next, m) ELSE 0

\* the texts that are embedded
EmbedTexts == {"hello world", "foo bar"}

\* int(hashlib.sha256(...).hexdigest(), 16) % 10**8, tabulated once for
\* the texts of the model
SeedTable == [t \in EmbedTexts |-> HexMod(Sha256Hex(t), 1, 0, SeedModulus)]

Det_get_seed(t) == SeedTable[t]

\* mutant: the generator is not reseeded
DetSeedStep_unseeded(seed, g) == g

\* line 68, np.random.seed(seed): the generator after it
DetSeedStep(seed, g) == np_random_seed(seed)

\* line 69, list(np.random.normal(size=self.size))
DetDrawStep(size, g) == DrawEmbedding(size, g)

\* mutant: the vector is drawn without reseeding, as FakeEmbeddings does
Det_get_embedding_unseeded(size, seed, g) == DrawEmbedding(size, g)

Det_get_embedding(size, seed, g) == DetDrawStep(size, DetSeedStep(seed, g))

\* [self._get_embedding(seed=self._get_seed(_)) for _ in texts]
RECURSIVE Det_embed_documents(_, _, _)
Det_embed_documents(size, texts, g) ==
    IF texts = <<>> THEN [err |-> FALSE, vecs |-> <<>>, g |-> g]
    ELSE LET e == Det_get_embedding(size, Det_get_seed(Head(texts)), g) IN
         IF e.err THEN [err |-> TRUE, vecs |-> <<>>, g |-> e.g]
         ELSE LET r == Det_embed_documents(size, Tail(texts), e.g) IN
              [err |-> r.err,
               vecs |-> IF r.err THEN <<>> ELSE <<e.vec>> \o r.vecs,
               g |-> r.g]

Det_embed_query(size, t, g) == Det_get_embedding(size, Det_get_seed(t), g)

(***************************************************************************)
(* Embedding calls made one after the other in one thread                  *)
(***************************************************************************)
MaxSize  == 2
MaxTexts == 2

\* size is a plain int field: nothing keeps it positive
SizeValues == {-1} \cup 1..MaxSize

TextLists == UNION {[1..n -> EmbedTexts] : n \in 0..MaxTexts}

NoEmbCall == [obj |-> "none", op |-> "none", texts |-> <<>>,
              err |-> FALSE, vecs |-> <<>>]

EmbCall(obj, op, texts, err, vecs) ==
    [obj |-> obj, op |-> op, texts |-> texts, err |-> err, vecs |-> vecs]

\* what the next call keeps of the call before it
Summary(c) ==
    CASE c.obj = "none" -> "none"
      [] c.obj = "fake" -> "fake"
      [] c.op = "embed_documents" -> "det embed_documents"
      [] OTHER -> c.texts[1]

ParserIdle ==
    /\ PYDANTIC_MAJOR_VERSION = 2
    /\ pydantic_object = ClassMisc
    /\ schema_cache = <<>>
    /\ text = <<>>
    /\ call = [op |-> "none", result |-> <<>>, partial |-> FALSE]
    /\ outcome = NoOutcome
    /\ first_instructions = <<>>
    /\ instruction_calls = 0

NumThreads == 2
Threads == 1..NumThreads

NoResult == [err |-> FALSE, vec |-> <<>>]

ThreadsIdle ==
    /\ serialized = FALSE
    /\ lock = 0
    /\ pc = [th \in Threads |-> "idle"]
    /\ th_text = [th \in Threads |-> ""]
    /\ th_result = [th \in Threads |-> NoResult]
    /\ interleaved = [th \in Threads |-> FALSE]

EmbedIdle ==
    /\ np_random = Generator(0, FALSE, 0)
    /\ fake_size = 1
    /\ det_size = 1
    /\ emb_call = NoEmbCall
    /\ prev_call = "none"

\* the process starts with a generator seeded from the system's entropy
InitEmbed ==
    /\ np_random \in Generators
    /\ fake_size \in SizeValues
    /\ det_size \in SizeValues
    /\ emb_call = NoEmbCall
    /\ prev_call = "none"
    /\ ParserIdle
    /\ ThreadsIdle

FakeEmbedQuery ==
    \E t \in EmbedTexts :
      LET r == Fake_embed_query(fake_size, t, np_random) IN
        /\ emb_call' = EmbCall("fake", "embed_query", <<t>>, r.err,
                               IF r.err THEN <<>> ELSE <<r.vec>>)
        /\ np_random' = r.g
        /\ prev_call' = Summary(emb_call)
        /\ UNCHANGED <<fake_size, det_size, parser_vars, thread_vars>>

FakeEmbedDocuments ==
    \E texts \in TextLists :
      LET r == Fake_embed_documents(fake_size, texts, np_random) IN
        /\ emb_call' = EmbCall("fake", "embed_documents", texts, r.err, r.vecs)
        /\ np_random' = r.g
        /\ prev_call' = Summary(emb_call)
        /\ UNCHANGED <<fake_size, det_size, parser_vars, thread_vars>>

DetEmbedQuery ==
    \E t \in EmbedTexts :
      LET r == Det_embed_query(det_size, t, np_random) IN
        /\ emb_call' = EmbCall("det", "embed_query", <<t>>, r.err,
                               IF r.err THEN <<>> ELSE <<r.vec>>)
        /\ np_random' = r.g
        /\ prev_call' = Summary(emb_call)
        /\ UNCHANGED <<fake_size, det_size, parser_vars, thread_vars>>

DetEmbedDocuments ==
    \E texts \in TextLists :
      LET r == Det_embed_documents(det_size, texts, np_random) IN
        /\ emb_call' = EmbCall("det", "embed_documents", texts, r.err, r.vecs)
        /\ np_random' = r.g
        /\ prev_call' = Summary(emb_call)
        /\ UNCHANGED <<fake_size, det_size, parser_vars, thread_vars>>

NextEmbed ==
    FakeEmbedQuery \/ FakeEmbedDocuments \/ DetEmbedQuery \/ DetEmbedDocuments

SpecEmbed == InitEmbed /\ [][NextEmbed]_vars

(***************************************************************************)
(* Threads calling DeterministicFakeEmbedding.embed_query on one object.   *)
(* np.random.seed and np.random.normal each run under the generator's own  *)
(* lock, so each is one step; nothing holds the two together.  When the    *)
(* callers serialise their calls, a caller takes the callers' lock before  *)
(* the call and gives it back after it.                                    *)
(***************************************************************************)
InitThreads ==
    /\ np_random \in Generators
    /\ det_size \in SizeValues
    /\ fake_size = 1
    /\ emb_call = NoEmbCall
    /\ prev_call = "none"
    /\ serialized \in BOOLEAN
    /\ lock = 0
    /\ pc = [th \in Threads |-> "idle"]
    /\ th_text = [th \in Threads |-> ""]
    /\ th_result = [th \in Threads |-> NoResult]
    /\ interleaved = [th \in Threads |-> FALSE]
    /\ ParserIdle

\* the steps of the other threads that are between their seed and their
\* draw see this step
Seen(th) ==
    [o \in Threads |-> IF o # th /\ pc[o] = "draw" THEN TRUE ELSE interleaved[o]]

\* embed_query(text) is entered: line 79 computes the seed of the text
Begin(th) ==
    /\ pc[th] = "idle"
    /\ \E t \in EmbedTexts : th_text' = [th_text EXCEPT ![th] = t]
    /\ IF serialized THEN lock = 0 /\ lock' = th ELSE UNCHANGED lock
    /\ pc' = [pc EXCEPT ![th] = "seed"]
    /\ UNCHANGED <<np_random, th_result, interleaved, serialized>>
    /\ UNCHANGED <<fake_size, det_size, emb_call, prev_call, parser_vars>>

\* line 68
SeedStep(th) ==
    /\ pc[th] = "seed"
    /\ np_random' = DetSeedStep(Det_get_seed(th_text[th]), np_random)
    /\ pc' = [pc EXCEPT ![th] = "draw"]
    /\ interleaved' = Seen(th)
    /\ UNCHANGED <<th_text, th_result, lock, serialized>>
    /\ UNCHANGED <<fake_size, det_size, emb_call, prev_call, parser_vars>>

\* line 69, and the return
DrawStep(th) ==
    /\ pc[th] = "draw"
    /\ LET r == DetDrawStep(det_size, np_random) IN
         /\ np_random' = r.g
         /\ th_result' = [th_result EXCEPT ![th] = [err |-> r.err, vec |-> r.vec]]
    /\ pc' = [pc EXCEPT ![th] = "done"]
    /\ interleaved' = Seen(th)
    /\ lock' = IF serialized THEN 0 ELSE lock
    /\ UNCHANGED <<th_text, serialized>>
    /\ UNCHANGED <<fake_size, det_size, emb_call, prev_call, parser_vars>>

\* the caller has taken the result
Finish(th) ==
    /\ pc[th] = "done"
    /\ pc' = [pc EXCEPT ![th] = "idle"]
    /\ th_text' = [th_text EXCEPT ![th] = ""]
    /\ th_result' = [th_result EXCEPT ![th] = NoResult]
    /\ interleaved' = [interleaved EXCEPT ![th] = FALSE]
    /\ UNCHANGED <<np_random, lock, serialized>>
    /\ UNCHANGED <<fake_size, det_size, emb_call, prev_call, parser_vars>>

NextThreads ==
    \E th \in Threads : Begin(th) \/ SeedStep(th) \/ DrawStep(th) \/ Finish(th)

SpecThreads == InitThreads /\ [][NextThreads]_vars

(***************************************************************************)
(* Properties of the embeddings                                            *)
(***************************************************************************)
\* the vector numpy draws right after it is seeded with the seed of t
SeededDraw(t, size) == DrawEmbedding(size, np_random_seed(Det_get_seed(t)))

SizeOf(obj) == IF obj = "fake" THEN fake_size ELSE det_size

\* C5: in one thread, whatever calls came before on either object, every
\* vector DeterministicFakeEmbedding returns for a text, from embed_query
\* or at any position of embed_documents, is the vector drawn right after
\* reseeding with sha256(text) mod 10^8: a function of the text and size.
C5_Deterministic ==
    (emb_call.obj = "det" /\ ~emb_call.err)
    => \A i \in DOMAIN emb_call.texts :
          emb_call.vecs[i] = SeededDraw(emb_call.texts[i], det_size).vec

\* embed_documents on a repeated text, after a FakeEmbeddings call
C5_Witness ==
    /\ prev_call = "fake"
    /\ emb_call.obj = "det"
    /\ emb_call.op = "embed_documents"
    /\ ~emb_call.err
    /\ det_size >= 2
    /\ Len(emb_call.texts) = 2
    /\ emb_call.texts[1] = emb_call.texts[2]
    /\ emb_call.vecs[1] = emb_call.vecs[2]

\* C6: with size > 0 no call fails, embed_documents returns one vector of
\* length size per text and embed_query one vector of length size.
C6_Shape ==
    (emb_call.obj # "none" /\ SizeOf(emb_call.obj) > 0)
    => /\ ~emb_call.err
       /\ Len(emb_call.vecs) = Len(emb_call.texts)
       /\ \A i \in DOMAIN emb_call.vecs :
            Len(emb_call.vecs[i]) = SizeOf(emb_call.obj)

C6_Witness ==
    /\ emb_call.obj = "fake"
    /\ emb_call.op = "embed_documents"
    /\ fake_size >= 2
    /\ Len(emb_call.texts) = 2
    /\ emb_call.texts[1] = emb_call.texts[2]
    /\ Len(emb_call.vecs) = 2

\* C10: the vector FakeEmbeddings.embed_query returns directly after
\* DeterministicFakeEmbedding.embed_query(t) is the one numpy draws after
\* it was seeded for t and the deterministic draw was made: fixed by t and
\* the two sizes.
C10_ReseedObserved ==
    (/\ emb_call.obj = "fake"
     /\ emb_call.op = "embed_query"
     /\ prev_call \in EmbedTexts)
    => LET after == SeededDraw(prev_call, det_size).g
           want  == DrawEmbedding(fake_size, after)
       IN  /\ emb_call.err = want.err
           /\ ~emb_call.err => emb_call.vecs = <<want.vec>>

C10_Witness ==
    /\ emb_call.obj = "fake"
    /\ emb_call.op = "embed_query"
    /\ prev_call \in EmbedTexts
    /\ fake_size > 0
    /\ det_size > 0
    /\ ~emb_call.err
    /\ emb_call.vecs = <<DrawEmbedding(fake_size,
                                       SeededDraw(prev_call, det_size).g).vec>>

\* C9: a call that the callers serialised returns the vector of its own
\* text; a call returns another vector only when the calls are not
\* serialised and another thread's seed or draw came between its seed and
\* its draw.
C9_Interleaving ==
    \A th \in Threads :
       pc[th] = "done"
       => LET own == SeededDraw(th_text[th], det_size) IN
          /\ serialized => th_result[th] = [err |-> own.err, vec |-> own.vec]
          /\ th_result[th] # [err |-> own.err, vec |-> own.vec]
               => (~serialized /\ interleaved[th])

\* two unserialised calls on different texts: a seeded, b seeded, a drew,
\* and a returned the vector of b's text, not of its own
C9_Witness ==
    /\ ~serialized
    /\ \E a, b \in Threads :
         /\ a # b
         /\ pc[a] = "done"
         /\ pc[b] = "draw"
         /\ th_text[a] # th_text[b]
         /\ interleaved[a]
         /\ ~th_result[a].err
         /\ th_result[a].vec # SeededDraw(th_text[a], det_size).vec
         /\ th_result[a].vec = SeededDraw(th_text[b], det_size).vec

(***************************************************************************)
(* The LLM outputs the parser is run on: the serialisations of small       *)
(* values, every truncation of them, and some hand-written texts.          *)
(***************************************************************************)
MaxInt  == 1
MaxGens == 2
MaxInstructionCalls == 2

Absent == [t |-> "absent"]

FieldValues ==
    {JInt(n) : n \in 1..MaxInt} \cup {JStr(<<"a">>), JStr(<<"2">>), JNull}

Member(k, v) == IF v = Absent THEN <<>> ELSE << <<k, v>> >>

InputValues ==
    {JDict(Member(foo, f) \o Member(bar, b)) :
        f \in FieldValues \cup {Absent}, b \in FieldValues \cup {Absent}}
    \cup {JDict(<< <<bar, JStr(<<"a">>)>>, <<foo, JInt(1)>> >>),
          JDict(<< <<foo, JInt(1)>>, <<bar, JStr(<<"a">>)>>, <<<<"z">>, JNull>> >>),
          JInt(1), JNull, JList(<<JInt(1)>>)}

NotValid == <<"{", "n", "o", "t", " ", "v", "a", "l", "i", "d">>

HandWritten ==
    {NotValid,
     <<" ", "{", "\"", "f", "o", "o", "\"", ":", "1", "}", "\n">>,
     <<"{", "\"", "f", "o", "o", "\"", ":", "1", ",", "}">>,
     <<"{", "\"", "f", "o", "o", "\"", ":", "1", ",",
            "\"", "f", "o", "o", "\"", ":", "n", "u", "l", "l", "}">>,
     <<"{", " ", "}">>,
     <<"0", "1">>}

FullTexts == {json_dumps(v) : v \in InputValues} \cup HandWritten

Truncations(t) == {SubSeq(t, 1, n) : n \in 0..(Len(t) - 1)}

Texts == FullTexts \cup UNION {Truncations(t) : t \in FullTexts}

\* the generations that may follow the first one in a result list
LaterTexts ==
    {NotValid,
     json_dumps(JDict(<< <<foo, JInt(1)>>, <<bar, JStr(<<"a">>)>> >>))}

RECURSIVE SeqsUpTo(_, _)
SeqsUpTo(S, n) ==
    IF n = 0 THEN {<<>>}
    ELSE LET shorter == SeqsUpTo(S, n - 1) IN
         shorter \cup {Append(q, x) : q \in shorter, x \in S}

LaterGenerations == SeqsUpTo(LaterTexts, MaxGens - 1)

InitParser ==
    /\ \E c \in Installations :
         /\ PYDANTIC_MAJOR_VERSION = c.version
         /\ pydantic_object = c.cls
         /\ schema_cache = IF IsModel(c.cls) THEN SchemaOf(c.cls) ELSE <<>>
    /\ text \in Texts
    /\ call = [op |-> "none", result |-> <<>>, partial |-> FALSE]
    /\ outcome = NoOutcome
    /\ first_instructions = <<>>
    /\ instruction_calls = 0
    /\ EmbedIdle
    /\ ThreadsIdle

\* parser.parse(text)
Parse ==
    /\ call' = [op |-> "parse", result |-> <<text>>, partial |-> FALSE]
    /\ outcome' = parse(text)
    /\ UNCHANGED <<PYDANTIC_MAJOR_VERSION, pydantic_object, schema_cache, text,
                   first_instructions, instruction_calls, embed_vars,
                   thread_vars>>

\* parser.parse_result([Generation(text), ...], partial=...)
ParseResult ==
    \E more \in LaterGenerations, partial \in BOOLEAN :
      /\ call' = [op |-> "parse_result", result |-> <<text>> \o more,
                  partial |-> partial]
      /\ outcome' = parse_result(<<text>> \o more, partial)
      /\ UNCHANGED <<PYDANTIC_MAJOR_VERSION, pydantic_object, schema_cache, text,
                     first_instructions, instruction_calls, embed_vars,
                     thread_vars>>

\* parser.get_format_instructions()
GetFormatInstructions ==
    LET r == get_format_instructions IN
      /\ instruction_calls < MaxInstructionCalls
      /\ instruction_calls' = instruction_calls + 1
      /\ call' = [op |-> "get_format_instructions", result |-> <<>>,
                  partial |-> FALSE]
      /\ outcome' = r.outcome
      /\ schema_cache' = r.cache
      /\ first_instructions' =
            IF instruction_calls = 0 /\ r.outcome.kind = "return"
            THEN r.outcome.value.s
            ELSE first_instructions
      /\ UNCHANGED <<PYDANTIC_MAJOR_VERSION, pydantic_object, text, embed_vars,
                     thread_vars>>

NextParser == Parse \/ ParseResult \/ GetFormatInstructions

SpecParser == InitParser /\ [][NextParser]_vars

(***************************************************************************)
(* Properties of the parser                                                *)
(***************************************************************************)
Contains(q, sub) ==
    \E i \in 0..(Len(q) - Len(sub)) : SubSeq(q, i + 1, i + Len(sub)) = sub

ParseCall == call.op \in {"parse", "parse_result"}
LastText  == call.result[1]

\* a value a field of the given type accepts
Acceptable(base, ty, v) ==
    IF ty = "integer"
    THEN v.t = "int" \/ (v.t = "str" /\ IsIntLiteral(v.s))
    ELSE v.t = "str" \/ (v.t = "int" /\ base = "v1")

\* v conforms to the schema of cls: a dict that holds every required field
\* and no field with a value of the wrong type
ConformsTo(cls, v) ==
    /\ v.t = "dict"
    /\ \A i \in DOMAIN cls.fields :
         LET f == cls.fields[i] IN
         IF f.name \in DictKeys(v.d)
         THEN Acceptable(cls.base, f.type, DictGet(v.d, f.name))
         ELSE ~f.required

\* C1: a text that decodes to JSON not conforming to the target schema makes
\* parse and parse_result raise one OutputParserException whose message
\* holds the class name, the re-serialised JSON and the validation error,
\* and whose llm_output is the re-serialised JSON.
C1_ValidationFailure ==
    (/\ ParseCall
     /\ IsModel(pydantic_object)
     /\ json_loads(LastText).ok
     /\ ~ConformsTo(pydantic_object, json_loads(LastText).v))
    => LET obj         == json_loads(LastText).v
           json_string == json_dumps(obj)
       IN  /\ outcome.kind = "raise"
           /\ outcome.exc = "OutputParserException"
           /\ outcome.cause = "ValidationError"
           /\ Contains(outcome.msg, pydantic_object.name)
           /\ Contains(outcome.msg, json_string)
           /\ Contains(outcome.msg, model_validate(pydantic_object, obj).err)
           /\ outcome.llm_output = json_string

\* a parse_result call on JSON that lacks the required field foo, whose
\* text is not its own re-serialisation
C1_Witness ==
    /\ call.op = "parse_result"
    /\ IsModel(pydantic_object)
    /\ json_loads(LastText).ok
    /\ json_loads(LastText).v.t = "dict"
    /\ foo \notin DictKeys(json_loads(LastText).v.d)
    /\ outcome.kind = "raise"
    /\ outcome.llm_output = <<"{", "}">>
    /\ LastText # outcome.llm_output

DictEq(d1, d2) ==
    /\ DictKeys(d1) = DictKeys(d2)
    /\ \A k \in DictKeys(d1) : DictGet(d1, k) = DictGet(d2, k)

\* a truncated JSON object: it does not decode, it is a proper prefix of a
\* serialised dict, and some of it decodes once its brackets are closed
IsTruncated(t) ==
    /\ ~json_loads(t).ok
    /\ \E v \in InputValues : v.t = "dict" /\ t \in Truncations(json_dumps(v))
    /\ parse_partial_json(t, Len(t)).ok
    /\ parse_partial_json(t, Len(t)).v.t = "dict"

\* C3: parse_result with partial=True on truncated JSON does not fail: it
\* returns a partial object holding exactly the fields decoded so far.
C3_PartialAccepted ==
    (/\ call.op = "parse_result"
     /\ call.partial
     /\ IsModel(pydantic_object)
     /\ IsTruncated(LastText))
    => /\ outcome.kind = "return"
       /\ outcome.value.t = "model"
       /\ DictEq(outcome.value.fields,
                 parse_partial_json(LastText, Len(LastText)).v.d)

\* the objects that conform to a class with fields foo and bar
FieldDomain(ty) ==
    {v \in FieldValues : v.t = (IF ty = "integer" THEN "int" ELSE "str")}

ConformingInstances(cls) ==
    {Instance(cls, <<f, b>>) :
        f \in FieldDomain(cls.fields[1].type),
        b \in FieldDomain(cls.fields[2].type)}

\* o.json(): every field, in declaration order
json_serialize(o) == json_dumps(JDict(o.fields))

\* C4: parsing the serialisation of a conforming object returns an object
\* equal to it.
C4_RoundTrip ==
    (ParseCall /\ IsModel(pydantic_object))
    => \A o \in ConformingInstances(pydantic_object) :
          LastText = json_serialize(o) => outcome = Return(o)

C4_Witness ==
    /\ call.op = "parse"
    /\ IsModel(pydantic_object)
    /\ \E o \in ConformingInstances(pydantic_object) :
          /\ LastText = json_serialize(o)
          /\ DictGet(o.fields, bar) = JStr(<<"2">>)
          /\ outcome = Return(o)

\* C7: get_format_instructions returns the template around the serialised
\* schema without its top-level "title" and "type"; every other top-level
\* key keeps its value, and the "title" and "type" inside "properties" stay.
C7_FormatInstructions ==
    (call.op = "get_format_instructions" /\ IsModel(pydantic_object))
    => /\ outcome.kind = "return"
       /\ LET out  == outcome.value.s
              full == SchemaOf(pydantic_object)
              dec  == json_loads(SubSeq(out, 4, Len(out) - 2))
          IN  /\ SubSeq(out, 1, 3) = <<TemplateHead, Fence, "\n">>
              /\ SubSeq(out, Len(out) - 1, Len(out)) = <<"\n", Fence>>
              /\ dec.ok
              /\ dec.v.t = "dict"
              /\ DictKeys(dec.v.d) = DictKeys(full) \ {kTitle, kType}
              /\ \A k \in DictKeys(dec.v.d) : DictGet(dec.v.d, k) = DictGet(full, k)
              /\ \A i \in DOMAIN pydantic_object.fields :
                   {kTitle, kType} \subseteq
                     DictKeys(DictGet(DictGet(dec.v.d, kProperties).d,
                                      pydantic_object.fields[i].name).d)

C7_Witness ==
    /\ call.op = "get_format_instructions"
    /\ IsModel(pydantic_object)
    /\ outcome.kind = "return"
    /\ Contains(outcome.value.s, kRequired)
    /\ Contains(outcome.value.s, kProperties)
    /\ Contains(outcome.value.s, kDefault)

\* C8: no call changes the dict schema() hands out, so a repeated
\* get_format_instructions returns the first string again and every call's
\* outcome is the one the same call gives now.
C8_SchemaReadOnly ==
    /\ schema_cache = (IF IsModel(pydantic_object)
                       THEN SchemaOf(pydantic_object) ELSE <<>>)
    /\ (call.op = "get_format_instructions" /\ outcome.kind = "return")
         => outcome.value.s = first_instructions
    /\ call.op = "get_format_instructions"
         => outcome = get_format_instructions.outcome
    /\ call.op = "parse" => outcome = parse(LastText)
    /\ call.op = "parse_result" => outcome = parse_result(call.result, call.partial)

C8_Witness ==
    /\ instruction_calls >= 2
    /\ call.op = "get_format_instructions"
    /\ outcome.kind = "return"
    /\ outcome.value.s = first_instructions

====
